---- MODULE Spec2Model ----
(***************************************************************************)
(* Device settings of the messaging client:                                *)
(*   - src/utils/notifications.ts: the bootstrapper of the per-device      *)
(*     local notification settings account-data record;                    *)
(*   - src/components/views/settings/devices/DeviceDetails.tsx: the push   *)
(*     notification toggle of a device's details, and the filtered and     *)
(*     sorted device list.                                                 *)
(*                                                                         *)
(* An optional JavaScript value is a sequence of length at most one: <<>>  *)
(* is undefined, <<v>> is the defined value v.                             *)
(***************************************************************************)
EXTENDS Naturals, Integers, Sequences, FiniteSets, TLC

VARIABLES
    accountData,   \* the account-data store: event type -> optional content
    calls,         \* the invocations of createLocalNotificationSettingsIfNeeded
    props,         \* DeviceDetails: the props of the last render, if any
    toggle,        \* DeviceDetails: the push notification section of the last render
    pushRequest,   \* DeviceDetails: the last call of setPushNotifications, if any
    devices,       \* FilteredDeviceList: the devices dictionary, in iteration order
    filter,        \* FilteredDeviceList: the filter prop, if any
    sortedDevices, \* FilteredDeviceList: sortedDevices of the last render, if any
    pushers,       \* FilteredDeviceList: the pushers prop
    localNotificationSettingsMap, \* FilteredDeviceList: the localNotificationSettings prop
    listItems,     \* FilteredDeviceList: the props of the DeviceListItems of the last render
    connectionState, \* CallView: call.connectionState
    connectCalls,  \* CallView: the number of calls of call.connect
    participants,  \* CallView: call.participants
    mediaDevices,  \* CallView: the numbers of audio and video inputs enumerated
    callView       \* CallView: what the view shows, if it is rendered

bootVars == <<accountData, calls>>

detailsVars == <<props, toggle, pushRequest>>

listVars == <<devices, filter, sortedDevices, pushers, localNotificationSettingsMap, listItems>>

callVars == <<connectionState, connectCalls, participants, mediaDevices, callView>>

vars == <<accountData, calls, props, toggle, pushRequest, devices, filter, sortedDevices,
          pushers, localNotificationSettingsMap, listItems,
          connectionState, connectCalls, participants, mediaDevices, callView>>

Undefined == <<>>

Some(v) == <<v>>

IsDefined(o) == o # Undefined

(***************************************************************************)
(* Bounds of the model.                                                    *)
(***************************************************************************)
\* the number of invocations of the bootstrapper in one behaviour
MaxInvocations == 3

\* the device identifiers of the client sessions
DeviceIds == {"d1", "d2"}

(***************************************************************************)
(* src/utils/notifications.ts                                              *)
(***************************************************************************)
deviceNotificationSettingsKeys ==
    <<"notificationsEnabled", "notificationBodyEnabled", "audioNotificationsEnabled">>

\* the values SettingsStore.getValue can return for the three legacy settings
SettingsValues == [{deviceNotificationSettingsKeys[k] : k \in 1..3} -> BOOLEAN]

LOCAL_NOTIFICATION_SETTINGS_PREFIX_name == "org.matrix.msc3890.local_notification_settings"

\* mutant: the device identifier is left out of the event type
getLocalNotificationAccountDataEventType_unscoped(deviceId) ==
    LOCAL_NOTIFICATION_SETTINGS_PREFIX_name

getLocalNotificationAccountDataEventType(deviceId) ==
    LOCAL_NOTIFICATION_SETTINGS_PREFIX_name \o "." \o deviceId

EventTypes == {getLocalNotificationAccountDataEventType(d) : d \in DeviceIds}

\* mutant: the read never sees a stored event
getAccountData_blind(eventType) == Undefined

\* cli.getAccountData(eventType): the stored event, or undefined
getAccountData(eventType) == accountData[eventType]

\* mutant: every setting instead of some setting
isSilencedOf_every(settings) ==
    ~(\A k \in 1..Len(deviceNotificationSettingsKeys) :
          settings[deviceNotificationSettingsKeys[k]])

\* !deviceNotificationSettingsKeys.some(key => SettingsStore.getValue(key))
isSilencedOf(settings) ==
    ~(\E k \in 1..Len(deviceNotificationSettingsKeys) :
          settings[deviceNotificationSettingsKeys[k]])

IdleCall == [pc |-> "idle", deviceId |-> Undefined, settings |-> Undefined,
             write |-> Undefined]

\* the invocations are numbered in the order in which they are made
MayStart(i) ==
    /\ calls[i].pc = "idle"
    /\ \A j \in 1..(i - 1) : calls[j].pc # "idle"

\* mutant: the write is made whether or not the record exists
createLocalNotificationSettingsIfNeeded_noCheck(i, d, s, readThrows) ==
    LET eventType == getLocalNotificationAccountDataEventType(d)
    IN  /\ MayStart(i)
        /\ calls' = [calls EXCEPT ![i] =
              IF readThrows
              THEN [pc |-> "rejected", deviceId |-> Some(d),
                    settings |-> Undefined, write |-> Undefined]
              ELSE [pc |-> "awaiting", deviceId |-> Some(d),
                    settings |-> Some(s),
                    write |-> Some([eventType |-> eventType,
                                    content |-> [is_silenced |-> isSilencedOf(s)]])]]
        /\ UNCHANGED <<accountData, detailsVars, listVars, callVars>>

\* mutant: a write that is pending for the device counts as the record
createLocalNotificationSettingsIfNeeded_locked(i, d, s, readThrows) ==
    LET eventType == getLocalNotificationAccountDataEventType(d)
        event == getAccountData(eventType)
        pending == \E j \in 1..MaxInvocations :
                       calls[j].pc = "awaiting" /\ calls[j].deviceId = Some(d)
    IN  /\ MayStart(i)
        /\ calls' = [calls EXCEPT ![i] =
              IF readThrows
              THEN [pc |-> "rejected", deviceId |-> Some(d),
                    settings |-> Undefined, write |-> Undefined]
              ELSE IF ~IsDefined(event) /\ ~pending
              THEN [pc |-> "awaiting", deviceId |-> Some(d),
                    settings |-> Some(s),
                    write |-> Some([eventType |-> eventType,
                                    content |-> [is_silenced |-> isSilencedOf(s)]])]
              ELSE [pc |-> "resolved", deviceId |-> Some(d),
                    settings |-> Undefined, write |-> Undefined]]
        /\ UNCHANGED <<accountData, detailsVars, listVars, callVars>>

(***************************************************************************)
(* createLocalNotificationSettingsIfNeeded(cli), up to its await: the      *)
(* client of device d reads the record of its device; when there is none   *)
(* it reads the legacy settings (s) and calls setAccountData.  The read is *)
(* synchronous, so this part of the invocation is one step.  A read that   *)
(* throws rejects the invocation.                                          *)
(***************************************************************************)
createLocalNotificationSettingsIfNeeded(i, d, s, readThrows) ==
    LET eventType == getLocalNotificationAccountDataEventType(d)
        event == getAccountData(eventType)
    IN  /\ MayStart(i)
        /\ calls' = [calls EXCEPT ![i] =
              IF readThrows
              THEN [pc |-> "rejected", deviceId |-> Some(d),
                    settings |-> Undefined, write |-> Undefined]
              ELSE IF ~IsDefined(event)
              THEN [pc |-> "awaiting", deviceId |-> Some(d),
                    settings |-> Some(s),
                    write |-> Some([eventType |-> eventType,
                                    content |-> [is_silenced |-> isSilencedOf(s)]])]
              ELSE [pc |-> "resolved", deviceId |-> Some(d),
                    settings |-> Undefined, write |-> Undefined]]
        /\ UNCHANGED <<accountData, detailsVars, listVars, callVars>>

\* the store's effect of a successful setAccountData(eventType, content)
setAccountData(eventType, content) ==
    [accountData EXCEPT ![eventType] = Some(content)]

\* the awaited setAccountData succeeds: the record is stored and the invocation
\* resolves (its locals, the settings it read among them, are gone)
setAccountDataResolves(i) ==
    /\ calls[i].pc = "awaiting"
    /\ accountData' = setAccountData(calls[i].write[1].eventType, calls[i].write[1].content)
    /\ calls' = [calls EXCEPT ![i].pc = "resolved", ![i].settings = Undefined]
    /\ UNCHANGED <<detailsVars, listVars, callVars>>

\* mutant: the failure of the write is swallowed
setAccountDataRejects_swallowed(i) ==
    /\ calls[i].pc = "awaiting"
    /\ calls' = [calls EXCEPT ![i].pc = "resolved", ![i].settings = Undefined]
    /\ UNCHANGED <<accountData, detailsVars, listVars, callVars>>

\* the awaited setAccountData fails: nothing is stored, the invocation rejects
setAccountDataRejects(i) ==
    /\ calls[i].pc = "awaiting"
    /\ calls' = [calls EXCEPT ![i].pc = "rejected", ![i].settings = Undefined]
    /\ UNCHANGED <<accountData, detailsVars, listVars, callVars>>

BootInit ==
    /\ accountData \in [EventTypes -> {Undefined} \cup {Some([is_silenced |-> b]) : b \in BOOLEAN}]
    /\ calls = [i \in 1..MaxInvocations |-> IdleCall]

\* no invocation has been made
BootIdle ==
    /\ accountData = [t \in EventTypes |-> Undefined]
    /\ calls = [i \in 1..MaxInvocations |-> IdleCall]

BootNext ==
    \/ \E i \in 1..MaxInvocations, d \in DeviceIds, s \in SettingsValues, readThrows \in BOOLEAN :
          createLocalNotificationSettingsIfNeeded(i, d, s, readThrows)
    \/ \E i \in 1..MaxInvocations : setAccountDataResolves(i)
    \/ \E i \in 1..MaxInvocations : setAccountDataRejects(i)

\* no invocation for the device of invocation i's client is awaiting its write
NoOverlap(d) ==
    \A j \in 1..MaxInvocations : calls[j].pc = "awaiting" => calls[j].deviceId # Some(d)

\* the invocations for one device made one after the other
SeqNext ==
    \/ \E i \in 1..MaxInvocations, d \in DeviceIds, s \in SettingsValues, readThrows \in BOOLEAN :
          NoOverlap(d) /\ createLocalNotificationSettingsIfNeeded(i, d, s, readThrows)
    \/ \E i \in 1..MaxInvocations : setAccountDataResolves(i)
    \/ \E i \in 1..MaxInvocations : setAccountDataRejects(i)

(***************************************************************************)
(* src/components/views/settings/devices/DeviceDetails.tsx: DeviceDetails  *)
(***************************************************************************)
OptionalBoolean == {Undefined, Some(TRUE), Some(FALSE)}

\* IPusher: the enabled field (PUSHER_ENABLED) may be missing
Pushers == [enabled : OptionalBoolean, device_id : DeviceIds]

LocalNotificationSettingsValues == [is_silenced : BOOLEAN]

DeviceDetailsProps ==
    [device_id : DeviceIds,
     pusher : {Undefined} \cup {Some(p) : p \in Pushers},
     localNotificationSettings :
         {Undefined} \cup {Some(l) : l \in LocalNotificationSettingsValues},
     setPushNotifications : BOOLEAN,
     supportsMSC3881 : OptionalBoolean]

\* a JavaScript optional boolean taken as a condition
Truthy(o) == o = Some(TRUE)

\* mutant: the section is shown whatever the props
showPushNotificationSection_always(pusher, localNotificationSettings) == TRUE

showPushNotificationSection(pusher, localNotificationSettings) ==
    IsDefined(pusher) \/ IsDefined(localNotificationSettings)

\* mutant: the local settings are looked at before the pusher
isPushNotificationsEnabled_localFirst(pusher, localNotificationSettings) ==
    IF IsDefined(localNotificationSettings)
    THEN Some(~localNotificationSettings[1].is_silenced)
    ELSE IF IsDefined(pusher) THEN pusher[1].enabled
    ELSE Some(TRUE)

\* the value is pusher[PUSHER_ENABLED.name] as it is: undefined when the field is missing
isPushNotificationsEnabled(pusher, localNotificationSettings) ==
    IF IsDefined(pusher) THEN pusher[1].enabled
    ELSE IF IsDefined(localNotificationSettings)
         THEN Some(~localNotificationSettings[1].is_silenced)
    ELSE Some(TRUE)

\* mutant: the local settings are not looked at
isCheckboxDisabled_noLocal(pusher, localNotificationSettings, supportsMSC3881) ==
    IF IsDefined(pusher) /\ ~Truthy(supportsMSC3881) THEN TRUE
    ELSE FALSE

isCheckboxDisabled(pusher, localNotificationSettings, supportsMSC3881) ==
    IF IsDefined(localNotificationSettings) THEN FALSE
    ELSE IF IsDefined(pusher) /\ ~Truthy(supportsMSC3881) THEN TRUE
    ELSE FALSE

(***************************************************************************)
(* A render of DeviceDetails with props p.  The section of the toggle is   *)
(* in the output iff shown; checked and disabled are the values of the two *)
(* functions on the props.                                                 *)
(***************************************************************************)
DeviceDetails(p) ==
    /\ props' = Some(p)
    /\ toggle' = Some([shown |-> showPushNotificationSection(p.pusher, p.localNotificationSettings),
                       checked |-> isPushNotificationsEnabled(p.pusher, p.localNotificationSettings),
                       disabled |-> isCheckboxDisabled(p.pusher, p.localNotificationSettings,
                                                       p.supportsMSC3881)])
    /\ UNCHANGED <<pushRequest, bootVars, listVars, callVars>>

\* onChange={checked => setPushNotifications?.(device.device_id, checked)} of the
\* toggle, which is in the output and not disabled
onChange(checked) ==
    /\ IsDefined(toggle)
    /\ toggle[1].shown
    /\ ~toggle[1].disabled
    /\ pushRequest' = IF props[1].setPushNotifications
                      THEN Some([deviceId |-> props[1].device_id, enabled |-> checked])
                      ELSE pushRequest
    /\ UNCHANGED <<props, toggle, bootVars, listVars, callVars>>

DetailsIdle ==
    /\ props = Undefined
    /\ toggle = Undefined
    /\ pushRequest = Undefined

DetailsNext ==
    \/ \E p \in DeviceDetailsProps : DeviceDetails(p)
    \/ \E checked \in BOOLEAN : onChange(checked)

(***************************************************************************)
(* src/components/views/settings/devices/DeviceDetails.tsx:                *)
(* FilteredDeviceList                                                      *)
(***************************************************************************)
\* the largest number of devices of the dictionary
MaxDevices == 3

\* the largest last_seen_ts of a device
MaxTs == 2

\* the identifiers of the devices of the dictionary, in its iteration order
ListDeviceIds == <<"d1", "d2", "d3", "d4", "d5">>

DeviceSecurityVariation == {"Verified", "Unverified", "Inactive"}

ALL_FILTER_ID == "ALL"

Timestamps == {Undefined} \cup {Some(t) : t \in 0..MaxTs}

\* the dictionaries: device k of the iteration order has identifier ListDeviceIds[k]
DevicesDictionaries ==
    UNION {{[k \in 1..n |-> [device_id |-> ListDeviceIds[k],
                             last_seen_ts |-> m[k].last_seen_ts,
                             isVerified |-> m[k].isVerified]] :
               m \in [1..n -> [last_seen_ts : Timestamps, isVerified : BOOLEAN]]} :
           n \in 0..MaxDevices}

\* Object.values(devices)
Object_values(dictionary) == dictionary

\* Date.now(): no device was seen after now
Now == MaxTs

\* the age from which a device is inactive
INACTIVE_DEVICE_AGE == 2

\* the security variants of a device (filter.ts)
Classify(device) ==
    (IF device.isVerified THEN {"Verified"} ELSE {"Unverified"})
    \cup (IF IsDefined(device.last_seen_ts)
             /\ Now - device.last_seen_ts[1] >= INACTIVE_DEVICE_AGE
          THEN {"Inactive"} ELSE {})

\* filterDevicesBySecurityRecommendation(devices, securityVariations) (filter.ts):
\* the devices that match the requested variants, in their order; all of them when
\* none is requested
filterDevicesBySecurityRecommendation(deviceList, securityVariations) ==
    IF securityVariations = <<>> THEN deviceList
    ELSE SelectSeq(deviceList,
                   LAMBDA device : \A k \in 1..Len(securityVariations) :
                                       securityVariations[k] \in Classify(device))

\* x || 0 of an optional number
OrZero(ts) == IF IsDefined(ts) /\ ts[1] # 0 THEN ts[1] ELSE 0

\* mutant: left and right swapped
sortDevicesByLatestActivity_ascending(left, right) ==
    OrZero(left.last_seen_ts) - OrZero(right.last_seen_ts)

\* devices without timestamp metadata should be sorted last
sortDevicesByLatestActivity(left, right) ==
    OrZero(right.last_seen_ts) - OrZero(left.last_seen_ts)

\* mutant: x put before the elements it compares equal to
InsertSorted_unstable(array, x) ==
    LET before == {k \in 1..Len(array) : sortDevicesByLatestActivity(array[k], x) < 0}
        n == IF before = {} THEN 0 ELSE CHOOSE k \in before : \A m \in before : m <= k
    IN  SubSeq(array, 1, n) \o <<x>> \o SubSeq(array, n + 1, Len(array))

\* x put into the sorted array after every element that compareFn does not put
\* after it (compareFn is sortDevicesByLatestActivity)
InsertSorted(array, x) ==
    LET before == {k \in 1..Len(array) : sortDevicesByLatestActivity(array[k], x) <= 0}
        n == IF before = {} THEN 0 ELSE CHOOSE k \in before : \A m \in before : m <= k
    IN  SubSeq(array, 1, n) \o <<x>> \o SubSeq(array, n + 1, Len(array))

RECURSIVE SortPrefix(_, _)
SortPrefix(array, n) ==
    IF n = 0 THEN <<>>
    ELSE InsertSorted(SortPrefix(array, n - 1), array[n])

\* array.sort(sortDevicesByLatestActivity): Array.prototype.sort is a stable sort
ArraySort(array) == SortPrefix(array, Len(array))

\* mutant: the filter is not handed on
getFilteredSortedDevices_unfiltered(dictionary, f) ==
    ArraySort(filterDevicesBySecurityRecommendation(Object_values(dictionary), <<>>))

getFilteredSortedDevices(dictionary, f) ==
    ArraySort(filterDevicesBySecurityRecommendation(
                  Object_values(dictionary), IF IsDefined(f) THEN <<f[1]>> ELSE <<>>))

\* mutant: without a filter the array that is sorted is the caller's own
SortedStorage_inPlace(dictionary, f) ==
    IF IsDefined(f) THEN "array" ELSE "dictionary"

\* the object whose slots .sort() reorders in getFilteredSortedDevices: the array
\* that Object.values(devices) makes (or the one filtered from it), never the
\* dictionary
SortedStorage(dictionary, f) == "array"

\* the dictionary, in its iteration order, after getFilteredSortedDevices(dictionary, f)
DictionaryAfter(dictionary, f) ==
    IF SortedStorage(dictionary, f) = "dictionary"
    THEN getFilteredSortedDevices(dictionary, f)
    ELSE dictionary

\* the largest number of pushers
MaxPushers == 2

\* the identifiers a device of the list can have
ListIds == {ListDeviceIds[k] : k \in 1..MaxDevices}

\* the pushers of the account: each has an enabled flag and the identifier of its device
ListPushers == [enabled : {Some(TRUE), Some(FALSE)}, device_id : ListIds]

\* array.find(predicate) with the predicate of getPusherForDevice: the first
\* element whose device identifier is the given one, or undefined
ArrayFind(array, deviceId) ==
    LET found == {k \in 1..Len(array) : array[k].device_id = deviceId}
    IN  IF found = {} THEN Undefined
        ELSE Some(array[CHOOSE k \in found : \A m \in found : k <= m])

\* mutant: the first pusher of the list, whatever its device
getPusherForDevice_first(pusherList, device) ==
    IF pusherList = <<>> THEN Undefined ELSE Some(pusherList[1])

\* pushers.find(pusher => pusher[PUSHER_DEVICE_ID.name] === device.device_id)
getPusherForDevice(pusherList, device) == ArrayFind(pusherList, device.device_id)

\* map.get(key) of a Map
Map_get(map, key) == IF key \in DOMAIN map THEN Some(map[key]) ELSE Undefined

\* sortedDevices.map(device => <DeviceListItem ... />): the device, pusher and
\* localNotificationSettings props of each item
DeviceListItems(sorted, pusherList, settingsMap) ==
    [m \in 1..Len(sorted) |->
        [device |-> sorted[m],
         pusher |-> getPusherForDevice(pusherList, sorted[m]),
         localNotificationSettings |-> Map_get(settingsMap, sorted[m].device_id)]]

\* a render of FilteredDeviceList with the props
FilteredDeviceList ==
    /\ sortedDevices' = Some(getFilteredSortedDevices(devices, filter))
    /\ devices' = DictionaryAfter(devices, filter)
    /\ listItems' = Some(DeviceListItems(sortedDevices'[1], pushers,
                                         localNotificationSettingsMap))
    /\ UNCHANGED <<filter, pushers, localNotificationSettingsMap,
                   bootVars, detailsVars, callVars>>

\* onFilterOptionChange(filterId): onFilterChange gets the new filter, with which
\* the list is rendered again
onFilterOptionChange(filterId) ==
    /\ IsDefined(sortedDevices)
    /\ filter' = IF filterId = ALL_FILTER_ID THEN Undefined ELSE Some(filterId)
    /\ sortedDevices' = Some(getFilteredSortedDevices(devices, filter'))
    /\ devices' = DictionaryAfter(devices, filter')
    /\ listItems' = Some(DeviceListItems(sortedDevices'[1], pushers,
                                         localNotificationSettingsMap))
    /\ UNCHANGED <<pushers, localNotificationSettingsMap, bootVars, detailsVars, callVars>>

\* no list is rendered
ListIdle ==
    /\ devices = <<>>
    /\ filter = Undefined
    /\ sortedDevices = Undefined
    /\ pushers = <<>>
    /\ localNotificationSettingsMap = <<>>
    /\ listItems = Undefined

\* the props of the list, before its first render
ListProps ==
    /\ devices \in DevicesDictionaries
    /\ filter \in {Undefined} \cup {Some(v) : v \in DeviceSecurityVariation}
    /\ sortedDevices = Undefined
    /\ pushers = <<>>
    /\ localNotificationSettingsMap = <<>>
    /\ listItems = Undefined

\* the props of a list of unverified devices, each last seen now or at time 0,
\* with pushers and with silenced local settings for some identifiers, before
\* its first render
ItemsProps ==
    /\ devices \in {ds \in DevicesDictionaries :
                      \A k \in 1..Len(ds) :
                          /\ ~ds[k].isVerified
                          /\ ds[k].last_seen_ts \in {Some(0), Some(MaxTs)}}
    /\ filter \in {Undefined, Some("Inactive")}
    /\ sortedDevices = Undefined
    /\ pushers \in UNION {[1..n -> ListPushers] : n \in 0..MaxPushers}
    /\ localNotificationSettingsMap \in
           UNION {[ids -> {[is_silenced |-> TRUE]}] : ids \in SUBSET ListIds}
    /\ listItems = Undefined

ListNext ==
    \/ FilteredDeviceList
    \/ \E filterId \in DeviceSecurityVariation \cup {ALL_FILTER_ID} :
          onFilterOptionChange(filterId)

(***************************************************************************)
(* test/components/views/voip/CallView-test.tsx: the call lobby of a room  *)
(* with an existing call, as the tests of CallView fix it.                 *)
(***************************************************************************)
\* the largest number of audio inputs, and of video inputs
MaxMediaDevices == 2

\* alice, bob and carol
Members == {"@alice:example.org", "@bob:example.org", "@carol:example.org"}

\* what the view shows: the lobby with its Join button until the call is connected,
\* the widget always; a device button when there is a device of its kind, with a
\* dropdown when there are several; the number of participants
RenderCallView(state, members, media) ==
    [joinButton |-> state # "Connected",
     widget |-> TRUE,
     joined |-> Cardinality(members),
     microphoneButton |-> media.audioinput >= 1,
     audioDevicesButton |-> media.audioinput >= 2,
     cameraButton |-> media.videoinput >= 1,
     videoDevicesButton |-> media.videoinput >= 2]

\* fireEvent.click on the Join button: connect is called on the call
clickJoin ==
    /\ IsDefined(callView)
    /\ callView[1].joinButton
    /\ connectionState = "Disconnected"
    /\ connectCalls' = connectCalls + 1
    /\ connectionState' = "Connecting"
    /\ callView' = Some(RenderCallView(connectionState', participants, mediaDevices))
    /\ UNCHANGED <<participants, mediaDevices, bootVars, detailsVars, listVars>>

\* mutant: the connection is never established
connectResolves_never ==
    /\ connectionState = "Connecting"
    /\ UNCHANGED vars

\* connect resolves: the call is connected and the view is rendered again
connectResolves ==
    /\ connectionState = "Connecting"
    /\ connectionState' = "Connected"
    /\ callView' = Some(RenderCallView(connectionState', participants, mediaDevices))
    /\ UNCHANGED <<connectCalls, participants, mediaDevices, bootVars, detailsVars, listVars>>

\* act(() => { call.participants = new Set(members) })
setParticipants(members) ==
    /\ IsDefined(callView)
    /\ participants' = members
    /\ callView' = Some(RenderCallView(connectionState, participants', mediaDevices))
    /\ UNCHANGED <<connectionState, connectCalls, mediaDevices, bootVars, detailsVars, listVars>>

\* no call view is rendered
CallIdle ==
    /\ connectionState = "Disconnected"
    /\ connectCalls = 0
    /\ participants = {}
    /\ mediaDevices = [audioinput |-> 0, videoinput |-> 0]
    /\ callView = Undefined

\* renderView() with an existing, disconnected call
CallRendered ==
    /\ connectionState = "Disconnected"
    /\ connectCalls = 0
    /\ participants = {}
    /\ mediaDevices \in [audioinput : 0..MaxMediaDevices, videoinput : 0..MaxMediaDevices]
    /\ callView = Some(RenderCallView(connectionState, participants, mediaDevices))

CallNext ==
    \/ clickJoin
    \/ connectResolves
    \/ \E members \in SUBSET Members : setParticipants(members)

(***************************************************************************)
(* The specifications.                                                     *)
(***************************************************************************)
\* the bootstrapper, its invocations interleaved in every way
Init == BootInit /\ DetailsIdle /\ ListIdle /\ CallIdle

Next == BootNext

Spec == Init /\ [][Next]_vars

\* the bootstrapper, its invocations for one device made one after the other
SeqSpec == Init /\ [][SeqNext]_vars

\* the details of a device
DetailsInit == BootIdle /\ DetailsIdle /\ ListIdle /\ CallIdle

DetailsSpec == DetailsInit /\ [][DetailsNext]_vars

\* the filtered device list
ListInit == BootIdle /\ DetailsIdle /\ ListProps /\ CallIdle

ListSpec == ListInit /\ [][ListNext]_vars

\* the items of the filtered device list
ItemsInit == BootIdle /\ DetailsIdle /\ ItemsProps /\ CallIdle

ItemsSpec == ItemsInit /\ [][FilteredDeviceList]_vars

\* the call lobby; a connect that has been called resolves
CallInit == BootIdle /\ DetailsIdle /\ ListIdle /\ CallRendered

CallSpec == CallInit /\ [][CallNext]_vars /\ WF_vars(connectResolves)

(***************************************************************************)
(* The claims.                                                             *)
(***************************************************************************)
\* C1: in every render, the checked value of the toggle follows first match wins:
\* with a pusher it is the pusher's enabled flag, whatever the local settings say;
\* without a pusher and with local settings it is NOT is_silenced; with neither
\* it is true.
C1_EnabledFirstMatchWins ==
    IsDefined(toggle) =>
        LET pusher == props[1].pusher
            localSettings == props[1].localNotificationSettings
            checked == toggle[1].checked
        IN  /\ (IsDefined(pusher) => checked = pusher[1].enabled)
            /\ (~IsDefined(pusher) /\ IsDefined(localSettings)
                    => checked = Some(~localSettings[1].is_silenced))
            /\ (~IsDefined(pusher) /\ ~IsDefined(localSettings) => checked = Some(TRUE))

\* a render where the pusher is disabled and the local settings are not silenced
C1_Witness ==
    /\ IsDefined(toggle)
    /\ IsDefined(props[1].pusher)
    /\ props[1].pusher[1].enabled = Some(FALSE)
    /\ props[1].localNotificationSettings = Some([is_silenced |-> FALSE])
    /\ toggle[1].checked = Some(FALSE)

\* C2: in every render, the toggle is disabled exactly when there are no local
\* settings, there is a pusher and the MSC3881 capability flag is not true.
C2_DisabledExactly ==
    IsDefined(toggle) =>
        (toggle[1].disabled <=>
            /\ ~IsDefined(props[1].localNotificationSettings)
            /\ IsDefined(props[1].pusher)
            /\ props[1].supportsMSC3881 # Some(TRUE))

\* a render with local settings, a pusher and no capability: the toggle is interactive
C2_Witness ==
    /\ IsDefined(toggle)
    /\ IsDefined(props[1].localNotificationSettings)
    /\ IsDefined(props[1].pusher)
    /\ props[1].supportsMSC3881 = Some(FALSE)
    /\ ~toggle[1].disabled

\* invocation i reads the record in this step, and the read does not throw
ReadsRecord(i) ==
    /\ calls[i].pc = "idle"
    /\ calls'[i].pc \in {"awaiting", "resolved"}

\* the record of the device of invocation i, as it is before this step
RecordRead(i) ==
    accountData[getLocalNotificationAccountDataEventType(calls'[i].deviceId[1])]

\* C3: an invocation that finds no record for its device makes one write, to the
\* key of its device, of {is_silenced: v} where v is true iff the three legacy
\* settings it reads are all false; it makes no other write later.
C3_WritesInvertedOr ==
    [][\A i \in 1..MaxInvocations :
          /\ (ReadsRecord(i) /\ ~IsDefined(RecordRead(i)))
                => /\ calls'[i].pc = "awaiting"
                   /\ IsDefined(calls'[i].settings)
                   /\ calls'[i].write =
                        Some([eventType |-> getLocalNotificationAccountDataEventType(
                                                calls'[i].deviceId[1]),
                              content |-> [is_silenced |->
                                  /\ ~calls'[i].settings[1]["notificationsEnabled"]
                                  /\ ~calls'[i].settings[1]["notificationBodyEnabled"]
                                  /\ ~calls'[i].settings[1]["audioNotificationsEnabled"]]])
          /\ (calls[i].pc # "idle" => calls'[i].write = calls[i].write)
      ]_vars

\* an invocation awaits its write of {is_silenced: false}, only the audio setting on
C3_Witness ==
    \E i \in 1..MaxInvocations :
        /\ calls[i].pc = "awaiting"
        /\ calls[i].settings = Some([k \in DOMAIN calls[i].settings[1] |->
                                        k = "audioNotificationsEnabled"])
        /\ calls[i].write[1].content = [is_silenced |-> FALSE]

\* C4: an invocation that finds a record for its device makes no write and reads
\* no legacy setting: it resolves at once and the store is left as it is.
C4_NoWriteWhenRecordExists ==
    [][\A i \in 1..MaxInvocations :
          (ReadsRecord(i) /\ IsDefined(RecordRead(i)))
              => /\ calls'[i].pc = "resolved"
                 /\ calls'[i].write = Undefined
                 /\ calls'[i].settings = Undefined
                 /\ accountData' = accountData
      ]_vars

\* an invocation has resolved without a write, the silenced record of its device kept
C4_Witness ==
    \E i \in 1..MaxInvocations :
        /\ calls[i].pc = "resolved"
        /\ calls[i].write = Undefined
        /\ accountData[getLocalNotificationAccountDataEventType(calls[i].deviceId[1])]
              = Some([is_silenced |-> TRUE])

\* the invocations that have called setAccountData for device d
WritesTo(d) ==
    {i \in 1..MaxInvocations :
        /\ IsDefined(calls[i].write)
        /\ calls[i].write[1].eventType = getLocalNotificationAccountDataEventType(d)}

\* the invocations whose write for device d has been stored
StoredWrites(d) == {i \in WritesTo(d) : calls[i].pc = "resolved"}

\* the invocations for device d that have completed successfully
ResolvedFor(d) ==
    {i \in 1..MaxInvocations : calls[i].pc = "resolved" /\ calls[i].deviceId = Some(d)}

\* an invocation made for device d after one for d has completed successfully
\* makes no write
NoWriteAfterSuccess(d) ==
    \A i \in ResolvedFor(d) : \A j \in (i + 1)..MaxInvocations :
        calls[j].deviceId = Some(d) => calls[j].write = Undefined

\* C5 as stated: over invocations made one after the other, an invocation that
\* follows a successful one makes no write, at most one write is made for a device
\* in the whole sequence, and after a success the record is there with the content
\* of the first write.
C5_Original ==
    \A d \in DeviceIds :
        /\ NoWriteAfterSuccess(d)
        /\ Cardinality(WritesTo(d)) <= 1
        /\ (ResolvedFor(d) # {} =>
              /\ IsDefined(accountData[getLocalNotificationAccountDataEventType(d)])
              /\ \A i \in WritesTo(d) :
                    accountData[getLocalNotificationAccountDataEventType(d)]
                        = Some(calls[i].write[1].content))

\* C5: over invocations made one after the other, an invocation that follows a
\* successful one makes no write, at most one write for a device takes effect in
\* the whole sequence, and after a success the record is there, with the content
\* of the write that took effect if there is one.
C5_IdempotentSequence ==
    \A d \in DeviceIds :
        /\ NoWriteAfterSuccess(d)
        /\ Cardinality(StoredWrites(d)) <= 1
        /\ (ResolvedFor(d) # {} =>
              /\ IsDefined(accountData[getLocalNotificationAccountDataEventType(d)])
              /\ \A i \in StoredWrites(d) :
                    accountData[getLocalNotificationAccountDataEventType(d)]
                        = Some(calls[i].write[1].content))

\* a stored write, then an invocation for the same device that resolved with no write
C5_Witness ==
    \E d \in DeviceIds : \E i \in StoredWrites(d) : \E j \in ResolvedFor(d) :
        i < j /\ calls[j].write = Undefined

\* C6: the check and the write are not atomic: an invocation that reads while the
\* write of another invocation for the same device is awaited, the record not yet
\* stored, also writes to the same key.
C6_PendingWriteNotSeen ==
    [][\A i, j \in 1..MaxInvocations :
          (/\ i # j
           /\ calls[i].pc = "awaiting"
           /\ ReadsRecord(j)
           /\ calls'[j].deviceId = calls[i].deviceId
           /\ ~IsDefined(RecordRead(j)))
              => /\ calls'[j].pc = "awaiting"
                 /\ calls'[j].write[1].eventType = calls[i].write[1].eventType
      ]_vars

\* two invocations await their writes to the same key at once
C6_Witness ==
    \E i, j \in 1..MaxInvocations :
        /\ i # j
        /\ calls[i].pc = "awaiting"
        /\ calls[j].pc = "awaiting"
        /\ calls[i].write[1].eventType = calls[j].write[1].eventType

\* C7 as stated: the writes of overlapping invocations for one device go to the
\* same key with the same content.
C7_EquivalentWrites ==
    \A i, j \in 1..MaxInvocations :
        (/\ calls[i].pc = "awaiting"
         /\ calls[j].pc = "awaiting"
         /\ calls[i].deviceId = calls[j].deviceId)
            => /\ calls[i].write[1].eventType = calls[j].write[1].eventType
               /\ calls[i].write[1].content = calls[j].write[1].content

\* C8: a read that throws rejects the invocation with no write; a write that fails
\* rejects it and leaves the store as it is; an invocation that has written
\* resolves only with its content stored; a rejected invocation does nothing more
\* (no retry), and no invocation writes a second time.
C8_FailurePropagates ==
    [][\A i \in 1..MaxInvocations :
          /\ (calls[i].pc = "idle" /\ calls'[i].pc = "rejected")
                => (calls'[i].write = Undefined /\ accountData' = accountData)
          /\ (calls[i].pc = "awaiting" /\ calls'[i].pc = "rejected")
                => (calls'[i].write = calls[i].write /\ accountData' = accountData)
          /\ (calls[i].pc = "awaiting" /\ calls'[i].pc = "resolved")
                => accountData'[calls[i].write[1].eventType]
                       = Some(calls[i].write[1].content)
          /\ (calls[i].pc = "rejected" => calls'[i] = calls[i])
          /\ (IsDefined(calls[i].write) => calls'[i].write = calls[i].write)
      ]_vars

\* an invocation is rejected after its write failed, and there is no record
C8_Witness ==
    \E i \in 1..MaxInvocations :
        /\ calls[i].pc = "rejected"
        /\ IsDefined(calls[i].write)
        /\ accountData[calls[i].write[1].eventType] = Undefined

\* C9 as stated, for two devices of the result at positions a and b: with two
\* different defined timestamps, the one before the other is the one seen later;
\* a device with no timestamp comes after every device that has one, 0 included.
C9_SortedUndefinedLast ==
    IsDefined(sortedDevices) =>
        LET r == sortedDevices[1]
        IN  \A a, b \in 1..Len(r) :
              /\ (/\ IsDefined(r[a].last_seen_ts)
                  /\ IsDefined(r[b].last_seen_ts)
                  /\ r[a].last_seen_ts # r[b].last_seen_ts)
                    => (a < b <=> r[a].last_seen_ts[1] > r[b].last_seen_ts[1])
              /\ (~IsDefined(r[a].last_seen_ts) /\ IsDefined(r[b].last_seen_ts))
                    => b < a

\* the devices the filter selects: all of them without a filter
Selected ==
    {k \in 1..Len(devices) : IsDefined(filter) => filter[1] \in Classify(devices[k])}

\* C10: the result holds each selected device once and no other device; without a
\* filter it is as long as the dictionary.
C10_PermutationOfSelected ==
    IsDefined(sortedDevices) =>
        LET r == sortedDevices[1]
        IN  /\ Len(r) = Cardinality(Selected)
            /\ (~IsDefined(filter) => Len(r) = Len(devices))
            /\ \A k \in 1..Len(devices) :
                  Cardinality({m \in 1..Len(r) : r[m] = devices[k]})
                      = IF k \in Selected THEN 1 ELSE 0
            /\ \A m \in 1..Len(r) : \E k \in 1..Len(devices) : r[m] = devices[k]

\* three devices, the unverified ones shown: two of them, the last of the
\* dictionary first
C10_Witness ==
    /\ IsDefined(sortedDevices)
    /\ filter = Some("Unverified")
    /\ Len(devices) = 3
    /\ Len(sortedDevices[1]) = 2
    /\ sortedDevices[1][1] = devices[3]

PlaceInDictionary(device) == CHOOSE k \in 1..Len(devices) : devices[k] = device

\* C12: two devices of the result with the same sort key (the same last_seen_ts,
\* or none, for which the key is 0) are in the order they have in the dictionary.
C12_TiesKeepInputOrder ==
    IsDefined(sortedDevices) =>
        LET r == sortedDevices[1]
        IN  \A a, b \in 1..Len(r) :
              (a < b /\ OrZero(r[a].last_seen_ts) = OrZero(r[b].last_seen_ts))
                  => PlaceInDictionary(r[a]) < PlaceInDictionary(r[b])

\* the first and the third device of the dictionary have the same timestamp and
\* follow the second, seen later, in the order of the dictionary
C12_Witness ==
    /\ IsDefined(sortedDevices)
    /\ Len(devices) = 3
    /\ devices[1].last_seen_ts = Some(1)
    /\ devices[2].last_seen_ts = Some(2)
    /\ devices[3].last_seen_ts = Some(1)
    /\ sortedDevices[1] = <<devices[2], devices[1], devices[3]>>

C14_DeviceScoped ==
    [][/\ \A d1, d2 \in DeviceIds :
             d1 # d2 => getLocalNotificationAccountDataEventType(d1)
                            # getLocalNotificationAccountDataEventType(d2)
       /\ \A i \in 1..MaxInvocations :
             calls'[i] # calls[i] =>
                 LET own == getLocalNotificationAccountDataEventType(calls'[i].deviceId[1])
                 IN  /\ IsDefined(calls'[i].write) => calls'[i].write[1].eventType = own
                     /\ \A t \in EventTypes \ {own} : accountData'[t] = accountData[t]
                     /\ ReadsRecord(i)
                           => (calls'[i].pc = "awaiting" <=> ~IsDefined(accountData[own]))
      ]_vars

\* an invocation for d1 has stored its record; the record of d2, which is another
\* one, is there as before
C14_Witness ==
    \E i \in 1..MaxInvocations :
        /\ calls[i].pc = "resolved"
        /\ calls[i].deviceId = Some("d1")
        /\ calls[i].write = Some([eventType |-> getLocalNotificationAccountDataEventType("d1"),
                                  content |-> [is_silenced |-> FALSE]])
        /\ accountData[getLocalNotificationAccountDataEventType("d1")]
              = Some([is_silenced |-> FALSE])
        /\ accountData[getLocalNotificationAccountDataEventType("d2")]
              = Some([is_silenced |-> TRUE])

PushersOf(device) == {k \in 1..Len(pushers) : pushers[k].device_id = device.device_id}

\* C16: every item of the rendered list shows a device selected by the filter; the
\* pusher handed to it is absent when no pusher carries the device's identifier,
\* and otherwise is the first pusher of the list with that identifier, never a
\* pusher of another device; the local settings handed to it are those stored in
\* the map under the device's identifier
C16_PusherOfSameDevice ==
    IsDefined(listItems) =>
        /\ Len(listItems[1]) = Len(sortedDevices[1])
        /\ \A m \in 1..Len(listItems[1]) :
              LET item == listItems[1][m]
                  mine == PushersOf(item.device)
              IN  /\ item.device = sortedDevices[1][m]
                  /\ (mine = {}) => item.pusher = Undefined
                  /\ (mine # {}) =>
                        /\ IsDefined(item.pusher)
                        /\ item.pusher[1].device_id = item.device.device_id
                        /\ \E k \in mine : /\ \A j \in mine : k <= j
                                            /\ item.pusher[1] = pushers[k]
                  /\ item.localNotificationSettings =
                        (IF item.device.device_id \in DOMAIN localNotificationSettingsMap
                         THEN Some(localNotificationSettingsMap[item.device.device_id])
                         ELSE Undefined)

\* a rendered list of two devices, the second of the dictionary shown first,
\* where both pushers carry the identifier of the first item and have opposite
\* flags: the first item gets the first pusher and its stored settings, the
\* second item gets no pusher and no settings
C16_Witness ==
    /\ IsDefined(listItems)
    /\ Len(listItems[1]) = 2
    /\ listItems[1][1].device.device_id = "d2"
    /\ listItems[1][2].device.device_id = "d1"
    /\ Len(pushers) = 2
    /\ pushers[1].device_id = "d2"
    /\ pushers[2].device_id = "d2"
    /\ pushers[1].enabled # pushers[2].enabled
    /\ listItems[1][1].pusher = Some(pushers[1])
    /\ listItems[1][2].pusher = Undefined
    /\ listItems[1][1].localNotificationSettings = Some([is_silenced |-> TRUE])
    /\ listItems[1][2].localNotificationSettings = Undefined

====
